---------------------------- MODULE Spec2Model ----------------------------
(***************************************************************************)
(* MoverAi: the App view state machine (src/App.tsx), the VideoCapture     *)
(* component (src/App.tsx), the inventory store over localStorage          *)
(* (src/components/ProcessingIndicator.tsx, second half) and the Gemini    *)
(* client (src/unnamed/part_001).                                          *)
(*                                                                         *)
(* Conventions.  A JS string is a sequence of one-character strings, so    *)
(* that trim() and the regular expressions are computed and not assumed.   *)
(* A JSON value is a tagged record [t |-> "str" | "num" | "arr" | "null",  *)
(* v |-> ...]; a field that is absent from an object is absent from the    *)
(* record's DOMAIN.  JS null in a React state of type string | null is the *)
(* string NullStr; JS null in an object-typed state is the record Null.    *)
(***************************************************************************)
EXTENDS Integers, Sequences, FiniteSets, TLC

VARIABLES
    \* ---- App (src/App.tsx:151-157)
    description,        \* useState<string>('')
    view,               \* useState<View>('IDLE')
    activeInventory,    \* useState<InventoryData | SavedInventoryData | null>
    savedInventories,   \* useState<SavedInventoryData[]>([])
    error,              \* useState<string | null>(null)
    fileName,           \* useState<string | null>(null)
    isProcessingVideo,  \* useState<boolean>(false)
    \* ---- promises in flight
    genPending,         \* handleSubmit continuations awaiting generateInventoryFromDescription
    videoPending,       \* processVideoFile continuations awaiting generateDescriptionFromVideo
    \* ---- VideoCapture, the mounted instance (src/App.tsx:19-23)
    streamRef,          \* streamRef.current: Null or a live MediaStream
    camPending,         \* getUserMedia of the mounted instance is in flight
    isRecording,        \* useState(false)
    capError,           \* useState<string | null>(null)
    recorder,           \* mediaRecorderRef.current's state: "none", "recording", "inactive"
    startBtn,           \* the Start button as last rendered: enabled iff streamRef.current was set
    \* ---- browser objects that outlive the instance that made them
    orphanAcq,          \* getUserMedia calls of unmounted instances still in flight
    leakedStream,       \* some stream acquired by an unmounted instance has unstopped tracks
    stopEvents,         \* MediaRecorder stop events queued and not yet dispatched
    \* ---- the store
    storage,            \* localStorage[STORAGE_KEY]: Null or a blob
    clock,              \* the last reading of new Date().getTime()
    ret                 \* what the store call of the last step returned or logged;
                        \* Null when the last step called no store function

appVars == <<description, view, activeInventory, savedInventories, error,
             fileName, isProcessingVideo>>
asyncVars == <<genPending, videoPending>>
capVars == <<streamRef, camPending, isRecording, capError, recorder, startBtn>>
browserVars == <<orphanAcq, leakedStream, stopEvents>>
storeVars == <<storage, clock>>
vars == <<appVars, asyncVars, capVars, browserVars, storeVars, ret>>

---------------------------------------------------------------------------
(* Bounds of the model                                                     *)

MaxClock == 1     \* the clock readings are 0 .. MaxClock
MaxSaved == 2     \* the App saves only while the store holds fewer records
MaxStored == 3    \* the same, when the store's interface is driven alone
MaxVideo == 1     \* video analyses pending, recordings and queued stop events together
MaxGen == 1       \* generation requests in flight
MaxOrphans == 1   \* getUserMedia calls of unmounted instances in flight
MaxChunks == 3    \* a size string handed to ensureUnits is made of at most so many pieces

---------------------------------------------------------------------------
(* JS values                                                               *)

Null == [null |-> TRUE]
NullStr == "<null>"

Str(chars) == [t |-> "str", v |-> chars]
Num(n) == [t |-> "num", v |-> n]
Arr(elems) == [t |-> "arr", v |-> elems]
JSNull == [t |-> "null", v |-> 0]

WhiteSpace == {" ", "\t"}
Digits == {"0", "1", "2", "3", "4", "5", "6", "7", "8", "9"}
DigitOf == <<"0", "1", "2", "3", "4", "5", "6", "7", "8", "9">>

\* String.prototype.trim, src/App.tsx:195 and src/unnamed/part_001:64
RECURSIVE TrimStart(_)
TrimStart(s) ==
    IF s # <<>> /\ Head(s) \in WhiteSpace THEN TrimStart(Tail(s)) ELSE s

RECURSIVE TrimEnd(_)
TrimEnd(s) ==
    IF s # <<>> /\ s[Len(s)] \in WhiteSpace
    THEN TrimEnd(SubSeq(s, 1, Len(s) - 1)) ELSE s

Trim(s) == TrimEnd(TrimStart(s))

\* String(n) of a non-negative integer
RECURSIVE NatToStr(_)
NatToStr(n) ==
    IF n < 10 THEN <<DigitOf[n + 1]>>
    ELSE NatToStr(n \div 10) \o <<DigitOf[(n % 10) + 1]>>

\* String(size), src/unnamed/part_001:64; obj.f of an absent field is undefined
JSString(val) ==
    CASE val.t = "str" -> val.v
      [] val.t = "num" -> NatToStr(val.v)
      [] val.t = "null" -> <<"n", "u", "l", "l">>
      [] OTHER -> <<"u", "n", "d", "e", "f", "i", "n", "e", "d">>

Undefined == [t |-> "undefined", v |-> 0]
Field(obj, f) == IF f \in DOMAIN obj THEN obj[f] ELSE Undefined

\* !x of a JSON value: undefined, null, "" and 0 are falsy; every array is truthy
Falsy(val) ==
    \/ val.t \in {"undefined", "null"}
    \/ val.t = "str" /\ val.v = <<>>
    \/ val.t = "num" /\ val.v = 0

---------------------------------------------------------------------------
(* ensureUnits, src/unnamed/part_001:63-74                                 *)

\* the i flag of the regular expression: letters compare in lower case
Lower(c) ==
    CASE c = "C" -> "c" [] c = "U" -> "u" [] c = "B" -> "b" [] c = "I" -> "i"
      [] c = "F" -> "f" [] c = "T" -> "t" [] c = "E" -> "e"
      [] OTHER -> c

\* pat occurs in s at position i, letters compared without case
MatchAt(s, i, pat) ==
    /\ i >= 1
    /\ i + Len(pat) - 1 <= Len(s)
    /\ \A k \in 1 .. Len(pat) : Lower(s[i + k - 1]) = pat[k]

\* a then \s? then b, starting at position i
MatchOptSpace(s, i, a, b) ==
    /\ MatchAt(s, i, a)
    /\ \/ MatchAt(s, i + Len(a), b)
       \/ /\ i + Len(a) <= Len(s)
          /\ s[i + Len(a)] \in WhiteSpace
          /\ MatchAt(s, i + Len(a) + 1, b)

\* /(cubic|cu\s?ft|ft\s?³|feet)/i.test(s); the character ³ is written "sup3"
HasUnit(s) ==
    \E i \in 1 .. Len(s) :
        \/ MatchAt(s, i, <<"c", "u", "b", "i", "c">>)
        \/ MatchOptSpace(s, i, <<"c", "u">>, <<"f", "t">>)
        \/ MatchOptSpace(s, i, <<"f", "t">>, <<"sup3">>)
        \/ MatchAt(s, i, <<"f", "e", "e", "t">>)

\* /^\d+(\.\d+)?$/.test(s)
FullNumeric(s) ==
    /\ s # <<>>
    /\ \/ \A k \in 1 .. Len(s) : s[k] \in Digits
       \/ \E d \in 2 .. Len(s) - 1 :
            /\ s[d] = "."
            /\ \A k \in (1 .. Len(s)) \ {d} : s[k] \in Digits

\* /\d/.test(s)
HasDigit(s) == \E k \in 1 .. Len(s) : s[k] \in Digits

CubicFeetSuffix == <<" ", "c", "u", "b", "i", "c", " ", "f", "e", "e", "t">>

\* ensureUnits that appends the suffix to a purely numeric string only
ensureUnitsNumericOnly(size) ==
    LET sizeStr == Trim(JSString(size))
    IN  IF HasUnit(sizeStr) THEN Str(sizeStr)
        ELSE IF FullNumeric(sizeStr)
             THEN Str(sizeStr \o CubicFeetSuffix)
             ELSE Str(sizeStr)

\* ensureUnits without the test for a unit that is already there
ensureUnitsNoUnitTest(size) ==
    LET sizeStr == Trim(JSString(size))
    IN  IF FullNumeric(sizeStr) \/ HasDigit(sizeStr)
        THEN Str(sizeStr \o CubicFeetSuffix)
        ELSE Str(sizeStr)

ensureUnits(size) ==
    LET sizeStr == Trim(JSString(size))
    IN  IF HasUnit(sizeStr) THEN Str(sizeStr)
        ELSE IF FullNumeric(sizeStr) \/ HasDigit(sizeStr)
             THEN Str(sizeStr \o CubicFeetSuffix)
             ELSE Str(sizeStr)

---------------------------------------------------------------------------
(* generateInventoryFromDescription, src/unnamed/part_001:77-140           *)
(* The service's answer is [call |-> "rejects"] or [call |-> "resolves",   *)
(* parse |-> "throws" | "ok", value |-> the parsed JSON value].            *)

GenerationFailureMessage ==
    "Failed to generate inventory from AI. Please check the console for more details."

GenerationFailure == [ok |-> FALSE, message |-> GenerationFailureMessage]

\* item => ({...item, estimatedSize: ensureUnits(item.estimatedSize)}), lines 129-132
NormalizeItem(item) ==
    [f \in DOMAIN item \cup {"estimatedSize"} |->
        IF f = "estimatedSize" THEN ensureUnits(Field(item, f)) ELSE item[f]]

\* lines 123-125: the required-field check
MissingRequiredFields(parsedData) ==
    \/ Falsy(Field(parsedData, "inventory"))
    \/ Falsy(Field(parsedData, "transcript"))
    \/ Falsy(Field(parsedData, "totalEstimatedSize"))

\* lines 128-134: the post-processing of a response that passed the check
PostProcess(parsedData) ==
    [f \in DOMAIN parsedData |->
        CASE f = "totalEstimatedSize" -> ensureUnits(parsedData[f])
          [] f = "inventory" ->
               Arr([k \in 1 .. Len(parsedData[f].v) |-> NormalizeItem(parsedData[f].v[k])])
          [] OTHER -> parsedData[f]]

\* generateInventoryFromDescription without the required-field check
generateInventoryFromDescriptionNoCheck(response) ==
    IF response.call = "rejects" THEN GenerationFailure
    ELSE IF response.parse = "throws" THEN GenerationFailure
    ELSE IF "t" \in DOMAIN response.value THEN GenerationFailure
    ELSE IF Field(response.value, "inventory").t \notin {"arr", "undefined"}
         THEN GenerationFailure
    ELSE [ok |-> TRUE, data |-> PostProcess(response.value)]

generateInventoryFromDescription(response) ==
    IF response.call = "rejects" THEN GenerationFailure
    ELSE IF response.parse = "throws" THEN GenerationFailure
    ELSE IF "t" \in DOMAIN response.value
         \* JSON.parse gave null, a number or a string: reading .inventory of null
         \* throws, and of a number or a string gives undefined
         THEN GenerationFailure
    ELSE IF MissingRequiredFields(response.value) THEN GenerationFailure
    ELSE IF response.value.inventory.t # "arr"
         \* a truthy inventory that is no array has no map method
         THEN GenerationFailure
    ELSE [ok |-> TRUE, data |-> PostProcess(response.value)]

\* The service's answers the runs draw from
Chars3(a, b, c) == <<a, b, c>>
ItemBed == [name |-> Str(Chars3("b", "e", "d")), count |-> Num(1),
            description |-> Str(<<"q">>), tags |-> Arr(<<>>),
            estimatedSize |-> Num(60)]
ObjectA == [inventory |-> Arr(<<ItemBed>>), transcript |-> Str(<<"h", "i">>),
            totalEstimatedSize |-> Str(<<"6", "0", " ", "c", "u", " ", "f", "t">>)]
ObjectB == [inventory |-> Arr(<<>>), transcript |-> Str(<<"o", "k">>),
            totalEstimatedSize |-> Num(5)]
ObjectNoTranscript == [inventory |-> Arr(<<ItemBed>>),
                       totalEstimatedSize |-> Str(<<"6", "0">>)]
Resolves(value) == [call |-> "resolves", parse |-> "ok", value |-> value]
ServiceRejects == [call |-> "rejects", parse |-> "none", value |-> JSNull]
ServiceGarbage == [call |-> "resolves", parse |-> "throws", value |-> JSNull]
ServiceResponses ==
    {ServiceRejects, ServiceGarbage, Resolves(ObjectNoTranscript), Resolves(ObjectA)}

---------------------------------------------------------------------------
(* The inventory store, src/components/ProcessingIndicator.tsx:42-103      *)

\* `inv_${new Date().getTime()}`, line 74
MakeId(ms) == Str(<<"i", "n", "v", "_">> \o NatToStr(ms))

\* new Date().toISOString(), line 75: the reading to the millisecond
ToISOString(ms) == Str(<<"T">> \o NatToStr(ms) \o <<"Z">>)

RECURSIVE DigitsToNat(_)
DigitsToNat(s) ==
    IF s = <<>> THEN 0
    ELSE 10 * DigitsToNat(SubSeq(s, 1, Len(s) - 1))
         + (CHOOSE d \in 0 .. 9 : DigitOf[d + 1] = s[Len(s)])

\* new Date(createdAt).getTime(), line 54
GetTime(createdAt) == DigitsToNat(SubSeq(createdAt.v, 2, Len(createdAt.v) - 1))

\* JSON.stringify of the array, and the blobs JSON.parse does not read as an array
Stringify(list) == [json |-> "array", value |-> list]
CorruptBlob == [json |-> "garbage", value |-> <<>>]
\* the empty string: JSON.parse does not read it either, and it is falsy
EmptyText == [json |-> "empty", value |-> <<>>]

\* Array.prototype.sort with (a, b) => time(b) - time(a), line 54: a stable sort,
\* newest first
RECURSIVE InsertNewestFirst(_, _)
InsertNewestFirst(sorted, r) ==
    IF sorted = <<>> THEN <<r>>
    ELSE IF GetTime(Head(sorted).createdAt) >= GetTime(r.createdAt)
         THEN <<Head(sorted)>> \o InsertNewestFirst(Tail(sorted), r)
         ELSE <<r>> \o sorted

RECURSIVE SortNewestFirst(_)
SortNewestFirst(list) ==
    IF list = <<>> THEN <<>>
    ELSE InsertNewestFirst(SortNewestFirst(SubSeq(list, 1, Len(list) - 1)),
                           list[Len(list)])

\* getSavedInventories with a catch block that forgets localStorage.removeItem
getSavedInventoriesKeepsBlob(blob) ==
    IF blob = Null \/ blob = EmptyText
    THEN [list |-> <<>>, storage |-> blob]
    ELSE IF blob.json = "array"
         THEN [list |-> SortNewestFirst(blob.value), storage |-> blob]
         ELSE [list |-> <<>>, storage |-> blob]

\* getSavedInventories, lines 48-62: the list it returns and the blob it leaves
getSavedInventories(blob) ==
    IF blob = Null \/ blob = EmptyText
    THEN \* if (savedData) is false, line 51: nothing is parsed or removed
         [list |-> <<>>, storage |-> blob]
    ELSE IF blob.json = "array"
         THEN [list |-> SortNewestFirst(blob.value), storage |-> blob]
         ELSE [list |-> <<>>, storage |-> Null]

\* {...inventoryData, id, createdAt}, lines 72-76
NewInventory(inventoryData, idMs, createdMs) ==
    [f \in DOMAIN inventoryData \cup {"id", "createdAt"} |->
        CASE f = "id" -> MakeId(idMs)
          [] f = "createdAt" -> ToISOString(createdMs)
          [] OTHER -> inventoryData[f]]

\* saveInventory with a catch block that logs and does not rethrow
saveInventoryNoThrow(blob, inventoryData, idMs, createdMs, writeOk) ==
    LET got == getSavedInventories(blob)
        newInventory == NewInventory(inventoryData, idMs, createdMs)
        allInventories == <<newInventory>> \o got.list
    IN  [threw |-> FALSE, ret |-> newInventory,
         storage |-> IF writeOk THEN Stringify(allInventories) ELSE got.storage]

\* saveInventory, lines 69-88.  idMs and createdMs are the two clock readings;
\* writeOk is whether localStorage.setItem succeeds.
saveInventory(blob, inventoryData, idMs, createdMs, writeOk) ==
    LET got == getSavedInventories(blob)
        newInventory == NewInventory(inventoryData, idMs, createdMs)
        allInventories == <<newInventory>> \o got.list
    IN  IF writeOk
        THEN [threw |-> FALSE, ret |-> newInventory,
              storage |-> Stringify(allInventories)]
        ELSE [threw |-> TRUE, ret |-> Null, storage |-> got.storage]

\* deleteInventoryById with the filter's test inverted (inv.id === id)
deleteInventoryByIdKeepsMatches(blob, id, writeOk) ==
    LET got == getSavedInventories(blob)
        Keep(inv) == inv.id = id
        filteredInventories == SelectSeq(got.list, Keep)
    IN  IF writeOk THEN Stringify(filteredInventories) ELSE got.storage

\* deleteInventoryById with a catch block that removes the stored item
deleteInventoryByIdClearsOnFailure(blob, id, writeOk) ==
    LET got == getSavedInventories(blob)
        Keep(inv) == inv.id # id
        filteredInventories == SelectSeq(got.list, Keep)
    IN  IF writeOk THEN Stringify(filteredInventories) ELSE Null

\* deleteInventoryById, lines 94-103
deleteInventoryById(blob, id, writeOk) ==
    LET got == getSavedInventories(blob)
        Keep(inv) == inv.id # id
        filteredInventories == SelectSeq(got.list, Keep)
    IN  IF writeOk THEN Stringify(filteredInventories) ELSE got.storage

---------------------------------------------------------------------------
(* The state after construction and the initial load, src/App.tsx:151-161  *)

ValidationMessage ==
    "Please describe the contents of your space for an accurate estimate."
CameraAccessMessage ==
    "Could not access camera. Please check permissions and try again."
RecorderStartMessage ==
    "Could not start recording. Your browser may not support this format."

\* what the user can type into the textarea
TypedDescriptions == {<<>>, <<" ">>, <<" ", "a">>}
\* simulatedDescriptions, src/unnamed/part_001:142-147, abridged to their initials
simulatedDescriptions == {<<"T", "h", "e">>}
UploadName == "upload.mp4"
CaptureName == "moverai-capture.webm"

Init ==
    /\ description = <<>>
    /\ view = "IDLE"
    /\ activeInventory = Null
    /\ savedInventories = <<>>
    /\ error = NullStr
    /\ fileName = NullStr
    /\ isProcessingVideo = FALSE
    /\ genPending = 0
    /\ videoPending = 0
    /\ streamRef = Null
    /\ camPending = FALSE
    /\ isRecording = FALSE
    /\ capError = NullStr
    /\ recorder = "none"
    /\ startBtn = FALSE
    /\ orphanAcq = 0
    /\ leakedStream = FALSE
    /\ stopEvents = 0
    /\ storage = Null
    /\ clock = 0
    /\ ret = Null

---------------------------------------------------------------------------
(* VideoCapture, src/App.tsx:18-145                                        *)

\* React renders VideoCapture again when a state of App or of VideoCapture changed;
\* disabled={!streamRef.current} (line 134) is read at that render only, a ref
\* assignment renders nothing.
Render ==
    startBtn' =
        IF view' # "CAPTURING_VIDEO" \/ view # "CAPTURING_VIDEO" THEN FALSE
        ELSE IF appVars' # appVars \/ <<isRecording, capError>>' # <<isRecording, capError>>
             THEN streamRef' # Null
             ELSE startBtn

\* the effect's cleanup (lines 44-48) and the end of the instance: the tracks of
\* streamRef.current are stopped, which ends a recorder that is recording and
\* queues its stop event; a getUserMedia still in flight stays in flight.
\* queued is the number of stop events left by the step that unmounts.
Unmount(queued) ==
    /\ streamRef' = Null
    /\ camPending' = FALSE
    /\ isRecording' = FALSE
    /\ capError' = NullStr
    /\ recorder' = "none"
    /\ orphanAcq' = orphanAcq + (IF camPending THEN 1 ELSE 0)
    /\ stopEvents' = queued + (IF recorder = "recording" THEN 1 ELSE 0)
    /\ UNCHANGED leakedStream

\* onClick={() => setView('CAPTURING_VIDEO')}, line 339, then the mount effect,
\* lines 25-42: getUserMedia is called
UseCamera ==
    /\ view = "IDLE"
    /\ ~isProcessingVideo
    /\ orphanAcq < MaxOrphans
    /\ view' = "CAPTURING_VIDEO"
    /\ camPending' = TRUE
    /\ UNCHANGED <<description, activeInventory, savedInventories, error, fileName,
                   isProcessingVideo, asyncVars, streamRef, isRecording, capError,
                   recorder, browserVars, storeVars>>
    /\ ret' = Null
    /\ Render

\* getUserMedia of the mounted instance resolves, lines 28-35
CameraResolves ==
    /\ camPending
    /\ streamRef' = [live |-> TRUE]
    /\ camPending' = FALSE
    /\ UNCHANGED <<appVars, asyncVars, isRecording, capError, recorder,
                   browserVars, storeVars>>
    /\ ret' = Null
    /\ Render

\* getUserMedia of the mounted instance rejects, lines 36-39
CameraRejects ==
    /\ camPending
    /\ capError' = CameraAccessMessage
    /\ camPending' = FALSE
    /\ UNCHANGED <<appVars, asyncVars, streamRef, isRecording, recorder,
                   browserVars, storeVars>>
    /\ ret' = Null
    /\ Render

\* getUserMedia of an unmounted instance resolves: line 32 stores the stream in the
\* dead instance's ref, whose cleanup has already run
OrphanCameraResolves ==
    /\ orphanAcq > 0
    /\ orphanAcq' = orphanAcq - 1
    /\ leakedStream' = TRUE
    /\ UNCHANGED <<appVars, asyncVars, capVars, stopEvents, storeVars>>
    /\ ret' = Null

\* getUserMedia of an unmounted instance rejects: setError on it changes nothing
OrphanCameraRejects ==
    /\ orphanAcq > 0
    /\ orphanAcq' = orphanAcq - 1
    /\ UNCHANGED <<appVars, asyncVars, capVars, leakedStream, stopEvents,
                   storeVars>>
    /\ ret' = Null

\* handleStartRecording, lines 51-81; started is whether new MediaRecorder and
\* start() went through
handleStartRecording(started) ==
    /\ view = "CAPTURING_VIDEO"
    /\ capError = NullStr
    /\ ~isRecording
    /\ startBtn
    /\ videoPending + stopEvents < MaxVideo
    /\ IF streamRef = Null
       THEN UNCHANGED <<isRecording, capError, recorder>>
       ELSE IF started
            THEN /\ recorder' = "recording"
                 /\ isRecording' = TRUE
                 /\ UNCHANGED capError
            ELSE /\ capError' = RecorderStartMessage
                 /\ UNCHANGED <<isRecording, recorder>>
    /\ UNCHANGED <<appVars, asyncVars, streamRef, camPending, browserVars,
                   storeVars>>
    /\ ret' = Null
    /\ Render

\* handleStopRecording, lines 83-88
handleStopRecording ==
    /\ view = "CAPTURING_VIDEO"
    /\ capError = NullStr
    /\ isRecording
    /\ IF recorder = "recording"
       THEN /\ recorder' = "inactive"
            /\ stopEvents' = stopEvents + 1
            /\ isRecording' = FALSE
       ELSE UNCHANGED <<recorder, stopEvents, isRecording>>
    /\ UNCHANGED <<appVars, asyncVars, streamRef, camPending, capError,
                   orphanAcq, leakedStream, storeVars>>
    /\ ret' = Null
    /\ Render

\* the recorder ends without stop() being called (an encoder error, the tracks
\* ending): it becomes inactive and its stop event is queued
RecorderEnds ==
    /\ recorder = "recording"
    /\ recorder' = "inactive"
    /\ stopEvents' = stopEvents + 1
    /\ UNCHANGED <<appVars, asyncVars, streamRef, camPending, isRecording,
                   capError, orphanAcq, leakedStream, storeVars>>
    /\ ret' = Null
    /\ Render

\* onCancel={() => setView('IDLE')}, line 254, from Cancel (line 117, disabled
\* while recording) or from Back (line 95, shown with the error)
CancelCapture ==
    /\ view = "CAPTURING_VIDEO"
    /\ capError # NullStr \/ ~isRecording
    /\ view' = "IDLE"
    /\ Unmount(stopEvents)
    /\ UNCHANGED <<description, activeInventory, savedInventories, error, fileName,
                   isProcessingVideo, asyncVars, storeVars>>
    /\ ret' = Null
    /\ Render

---------------------------------------------------------------------------
(* App, src/App.tsx:150-389                                                *)

\* processVideoFile up to its await, lines 163-170
processVideoFile(name) ==
    /\ fileName' = name
    /\ isProcessingVideo' = TRUE
    /\ error' = NullStr
    /\ description' = <<>>
    /\ videoPending' = videoPending + 1

\* generateDescriptionFromVideo resolves (src/unnamed/part_001:155-170; it never
\* rejects) and processVideoFile resumes, lines 171 and 175-177
VideoResolves(generatedDescription) ==
    /\ videoPending > 0
    /\ videoPending' = videoPending - 1
    /\ description' = generatedDescription
    /\ isProcessingVideo' = FALSE
    /\ UNCHANGED <<view, activeInventory, savedInventories, error, fileName,
                   genPending, streamRef, camPending, isRecording, capError,
                   recorder, browserVars, storeVars>>
    /\ ret' = Null
    /\ Render

\* handleFileChange, lines 180-186; the input is rendered while no video is being
\* processed (line 321)
handleFileChange(hasFile) ==
    /\ view = "IDLE"
    /\ ~isProcessingVideo
    /\ IF hasFile
       THEN /\ videoPending + stopEvents < MaxVideo
            /\ processVideoFile(UploadName)
       ELSE /\ fileName' = NullStr
            /\ UNCHANGED <<isProcessingVideo, error, description, videoPending>>
    /\ UNCHANGED <<view, activeInventory, savedInventories, genPending, capVars,
                   browserVars, storeVars>>
    /\ ret' = Null

\* onChange of the textarea, line 366; disabled while a video is processed (line 370)
TypeDescription(text) ==
    /\ view = "IDLE"
    /\ ~isProcessingVideo
    /\ description' = text
    /\ UNCHANGED <<view, activeInventory, savedInventories, error, fileName,
                   isProcessingVideo, asyncVars, capVars, browserVars, storeVars>>
    /\ ret' = Null

\* handleCaptureComplete without the call of processVideoFile
OnStopNoProcessing(hasData) ==
    /\ stopEvents > 0
    /\ IF hasData
       THEN /\ view' = "IDLE"
            /\ UNCHANGED <<fileName, isProcessingVideo, error, description,
                           videoPending>>
            /\ IF view = "CAPTURING_VIDEO"
               THEN Unmount(stopEvents - 1)
               ELSE /\ stopEvents' = stopEvents - 1
                    /\ UNCHANGED <<streamRef, camPending, isRecording, capError,
                                   recorder, orphanAcq, leakedStream>>
            /\ UNCHANGED <<activeInventory, savedInventories, genPending>>
       ELSE /\ stopEvents' = stopEvents - 1
            /\ UNCHANGED <<appVars, asyncVars, streamRef, camPending, isRecording,
                           capError, recorder, orphanAcq, leakedStream>>
    /\ UNCHANGED <<storeVars>>
    /\ ret' = Null
    /\ Render

\* mediaRecorder.onstop, lines 65-72, and handleCaptureComplete, lines 188-191;
\* hasData is videoFile.size > 0
OnStop(hasData) ==
    /\ stopEvents > 0
    /\ IF hasData
       THEN /\ view' = "IDLE"
            /\ processVideoFile(CaptureName)
            /\ IF view = "CAPTURING_VIDEO"
               THEN Unmount(stopEvents - 1)
               ELSE /\ stopEvents' = stopEvents - 1
                    /\ UNCHANGED <<streamRef, camPending, isRecording, capError,
                                   recorder, orphanAcq, leakedStream>>
            /\ UNCHANGED <<activeInventory, savedInventories, genPending>>
       ELSE /\ stopEvents' = stopEvents - 1
            /\ UNCHANGED <<appVars, asyncVars, streamRef, camPending, isRecording,
                           capError, recorder, orphanAcq, leakedStream>>
    /\ UNCHANGED <<storeVars>>
    /\ ret' = Null
    /\ Render

\* handleSubmit with the blank test on the untrimmed description
handleSubmitNoTrim ==
    /\ view = "IDLE"
    /\ ~isProcessingVideo
    /\ IF description = <<>>
       THEN /\ error' = ValidationMessage
            /\ UNCHANGED <<view, activeInventory, genPending>>
       ELSE /\ genPending < MaxGen
            /\ error' = NullStr
            /\ view' = "PROCESSING"
            /\ activeInventory' = Null
            /\ genPending' = genPending + 1
    /\ UNCHANGED <<description, savedInventories, fileName, isProcessingVideo,
                   videoPending, capVars, browserVars, storeVars>>
    /\ ret' = Null

\* handleSubmit up to its await, lines 193-204; the submit button is disabled in
\* PROCESSING and while a video is processed (line 379)
handleSubmit ==
    /\ view = "IDLE"
    /\ ~isProcessingVideo
    /\ IF Trim(description) = <<>>
       THEN /\ error' = ValidationMessage
            /\ UNCHANGED <<view, activeInventory, genPending>>
       ELSE /\ genPending < MaxGen
            /\ error' = NullStr
            /\ view' = "PROCESSING"
            /\ activeInventory' = Null
            /\ genPending' = genPending + 1
    /\ UNCHANGED <<description, savedInventories, fileName, isProcessingVideo,
                   videoPending, capVars, browserVars, storeVars>>
    /\ ret' = Null

\* handleSubmit's continuation with a catch branch that forgets setView('ERROR')
GenerationSettlesKeepsView(response) ==
    /\ genPending > 0
    /\ genPending' = genPending - 1
    /\ LET result == generateInventoryFromDescription(response)
       IN  IF result.ok
           THEN /\ activeInventory' = result.data
                /\ view' = "SUCCESS"
                /\ UNCHANGED error
           ELSE /\ error' = result.message
                /\ UNCHANGED <<view, activeInventory>>
    /\ IF view = "CAPTURING_VIDEO" /\ view' # view
       THEN Unmount(stopEvents)
       ELSE UNCHANGED <<streamRef, camPending, isRecording, capError, recorder,
                        browserVars>>
    /\ UNCHANGED <<description, savedInventories, fileName, isProcessingVideo,
                   videoPending, storeVars>>
    /\ ret' = Null
    /\ Render

\* handleSubmit's continuation without setActiveInventory(result)
GenerationSettlesNoInventory(response) ==
    /\ genPending > 0
    /\ genPending' = genPending - 1
    /\ LET result == generateInventoryFromDescription(response)
       IN  IF result.ok
           THEN /\ view' = "SUCCESS"
                /\ UNCHANGED <<activeInventory, error>>
           ELSE /\ error' = result.message
                /\ view' = "ERROR"
                /\ UNCHANGED activeInventory
    /\ IF view = "CAPTURING_VIDEO"
       THEN Unmount(stopEvents)
       ELSE UNCHANGED <<streamRef, camPending, isRecording, capError, recorder,
                        browserVars>>
    /\ UNCHANGED <<description, savedInventories, fileName, isProcessingVideo,
                   videoPending, storeVars>>
    /\ ret' = Null
    /\ Render

\* generateInventoryFromDescription settles and handleSubmit resumes, lines 204-211;
\* a capture view that is shown then is replaced (lines 250-256) and unmounts
GenerationSettles(response) ==
    /\ genPending > 0
    /\ genPending' = genPending - 1
    /\ LET result == generateInventoryFromDescription(response)
       IN  IF result.ok
           THEN /\ activeInventory' = result.data
                /\ view' = "SUCCESS"
                /\ UNCHANGED error
           ELSE /\ error' = result.message
                /\ view' = "ERROR"
                /\ UNCHANGED activeInventory
    /\ IF view = "CAPTURING_VIDEO"
       THEN Unmount(stopEvents)
       ELSE UNCHANGED <<streamRef, camPending, isRecording, capError, recorder,
                        browserVars>>
    /\ UNCHANGED <<description, savedInventories, fileName, isProcessingVideo,
                   videoPending, storeVars>>
    /\ ret' = Null
    /\ Render

\* handleResetToIdle without setFileName(null)
handleResetToIdleKeepsFile ==
    /\ view' = "IDLE"
    /\ activeInventory' = Null
    /\ error' = NullStr
    /\ description' = <<>>
    /\ isProcessingVideo' = FALSE
    /\ UNCHANGED fileName

\* handleResetToIdle, lines 214-225
handleResetToIdle ==
    /\ view' = "IDLE"
    /\ activeInventory' = Null
    /\ error' = NullStr
    /\ description' = <<>>
    /\ fileName' = NullStr
    /\ isProcessingVideo' = FALSE

\* onNew of the list (line 278) and Try Again of the error view (line 287)
StartNew ==
    /\ view \in {"LIST_INVENTORIES", "ERROR"}
    /\ handleResetToIdle
    /\ UNCHANGED <<savedInventories, asyncVars, capVars, browserVars, storeVars>>
    /\ ret' = Null

\* onDone that resets whatever the active inventory is
onDoneAlwaysResets ==
    /\ view = "SUCCESS"
    /\ activeInventory # Null
    /\ handleResetToIdle
    /\ UNCHANGED <<savedInventories, asyncVars, capVars, browserVars, storeVars>>
    /\ ret' = Null

\* onDone, lines 264-270; InventoryResult is rendered only with an active inventory
onDone ==
    /\ view = "SUCCESS"
    /\ activeInventory # Null
    /\ IF "id" \in DOMAIN activeInventory
       THEN /\ view' = "LIST_INVENTORIES"
            /\ UNCHANGED <<activeInventory, error, description, fileName,
                           isProcessingVideo>>
       ELSE handleResetToIdle
    /\ UNCHANGED <<savedInventories, asyncVars, capVars, browserVars, storeVars>>
    /\ ret' = Null

\* the button of line 306, shown when there are saved inventories (line 303)
ViewSaved ==
    /\ view = "IDLE"
    /\ Len(savedInventories) > 0
    /\ view' = "LIST_INVENTORIES"
    /\ UNCHANGED <<description, activeInventory, savedInventories, error, fileName,
                   isProcessingVideo, asyncVars, capVars, browserVars, storeVars>>
    /\ ret' = Null

\* handleViewInventory, lines 244-247, from a row of the list
handleViewInventory(inventory) ==
    /\ view = "LIST_INVENTORIES"
    /\ activeInventory' = inventory
    /\ view' = "SUCCESS"
    /\ UNCHANGED <<description, savedInventories, error, fileName,
                   isProcessingVideo, asyncVars, capVars, browserVars, storeVars>>
    /\ ret' = Null

\* the two readings of new Date() in saveInventory (lines 74 and 75): the first is
\* no earlier than the last reading taken, the second is the same millisecond or
\* the next
IdReadings == clock .. MaxClock
CreatedReadings(idMs) == {t \in {idMs, idMs + 1} : t <= MaxClock}

\* handleSaveInventory that puts the new record last ([...prev, newSavedItem])
handleSaveInventoryAppends(idMs, createdMs, writeOk) ==
    /\ view = "SUCCESS"
    /\ activeInventory # Null
    /\ Len(getSavedInventories(storage).list) < MaxSaved
    /\ LET saved == saveInventory(storage, activeInventory, idMs, createdMs, writeOk)
       IN  /\ storage' = saved.storage
           /\ clock' = createdMs
           /\ IF saved.threw
              THEN UNCHANGED <<savedInventories, view>>
              ELSE /\ savedInventories' = savedInventories \o <<saved.ret>>
                   /\ view' = "LIST_INVENTORIES"
           /\ ret' = [op |-> "save", threw |-> saved.threw, value |-> saved.ret]
    /\ UNCHANGED <<description, activeInventory, error, fileName, isProcessingVideo,
                   asyncVars, capVars, browserVars>>

\* handleSaveInventory, lines 227-231, called by InventoryResult with the inventory
\* on display; when saveInventory throws, the handler is left before its setters
handleSaveInventory(idMs, createdMs, writeOk) ==
    /\ view = "SUCCESS"
    /\ activeInventory # Null
    /\ Len(getSavedInventories(storage).list) < MaxSaved
    /\ LET saved == saveInventory(storage, activeInventory, idMs, createdMs, writeOk)
       IN  /\ storage' = saved.storage
           /\ clock' = createdMs
           /\ IF saved.threw
              THEN UNCHANGED <<savedInventories, view>>
              ELSE /\ savedInventories' = <<saved.ret>> \o savedInventories
                   /\ view' = "LIST_INVENTORIES"
           /\ ret' = [op |-> "save", threw |-> saved.threw, value |-> saved.ret]
    /\ UNCHANGED <<description, activeInventory, error, fileName, isProcessingVideo,
                   asyncVars, capVars, browserVars>>

\* the ids the user can ask to delete: a row of the list (src/unnamed/part_000:134-140)
\* or the saved inventory on display
DeletableIds ==
    IF view = "LIST_INVENTORIES"
    THEN {savedInventories[k].id : k \in 1 .. Len(savedInventories)}
    ELSE IF view = "SUCCESS" /\ activeInventory # Null /\ "id" \in DOMAIN activeInventory
         THEN {activeInventory.id}
         ELSE {}

\* handleDeleteInventory without setView('LIST_INVENTORIES')
handleDeleteInventoryStaysInSuccess(id, writeOk) ==
    /\ id \in DeletableIds
    /\ LET updated == getSavedInventories(deleteInventoryById(storage, id, writeOk))
       IN  /\ storage' = updated.storage
           /\ savedInventories' = updated.list
    /\ IF activeInventory # Null /\ "id" \in DOMAIN activeInventory
          /\ activeInventory.id = id
       THEN /\ activeInventory' = Null
            /\ UNCHANGED view
       ELSE UNCHANGED <<view, activeInventory>>
    /\ ret' = [op |-> "delete", id |-> id, logged |-> ~writeOk]
    /\ UNCHANGED <<description, error, fileName, isProcessingVideo, asyncVars,
                   capVars, browserVars, clock>>

\* handleDeleteInventory without setActiveInventory(null)
handleDeleteInventoryKeepsActive(id, writeOk) ==
    /\ id \in DeletableIds
    /\ LET updated == getSavedInventories(deleteInventoryById(storage, id, writeOk))
       IN  /\ storage' = updated.storage
           /\ savedInventories' = updated.list
    /\ IF activeInventory # Null /\ "id" \in DOMAIN activeInventory
          /\ activeInventory.id = id
       THEN /\ view' = "LIST_INVENTORIES"
            /\ UNCHANGED activeInventory
       ELSE UNCHANGED <<view, activeInventory>>
    /\ ret' = [op |-> "delete", id |-> id, logged |-> ~writeOk]
    /\ UNCHANGED <<description, error, fileName, isProcessingVideo, asyncVars,
                   capVars, browserVars, clock>>

\* handleDeleteInventory, lines 233-242
handleDeleteInventory(id, writeOk) ==
    /\ id \in DeletableIds
    /\ LET updated == getSavedInventories(deleteInventoryById(storage, id, writeOk))
       IN  /\ storage' = updated.storage
           /\ savedInventories' = updated.list
    /\ IF activeInventory # Null /\ "id" \in DOMAIN activeInventory
          /\ activeInventory.id = id
       THEN /\ view' = "LIST_INVENTORIES"
            /\ activeInventory' = Null
       ELSE UNCHANGED <<view, activeInventory>>
    /\ ret' = [op |-> "delete", id |-> id, logged |-> ~writeOk]
    /\ UNCHANGED <<description, error, fileName, isProcessingVideo, asyncVars,
                   capVars, browserVars, clock>>

\* the user's and the environment's choices
StartRecording == \E started \in BOOLEAN : handleStartRecording(started)
StopEventFires == \E hasData \in BOOLEAN : OnStop(hasData)
VideoAnalysed == \E d \in simulatedDescriptions : VideoResolves(d)
FileChosen == \E hasFile \in BOOLEAN : handleFileChange(hasFile)
Typing == \E text \in TypedDescriptions : TypeDescription(text)
GenerationDone == \E response \in ServiceResponses : GenerationSettles(response)
SelectSaved ==
    \E k \in 1 .. Len(savedInventories) : handleViewInventory(savedInventories[k])
SaveActive ==
    \E idMs \in IdReadings, writeOk \in BOOLEAN :
        \E createdMs \in CreatedReadings(idMs) :
            handleSaveInventory(idMs, createdMs, writeOk)
DeleteSaved ==
    \E id \in DeletableIds, writeOk \in BOOLEAN : handleDeleteInventory(id, writeOk)

Next ==
    \/ UseCamera
    \/ CameraResolves
    \/ CameraRejects
    \/ OrphanCameraResolves
    \/ OrphanCameraRejects
    \/ StartRecording
    \/ handleStopRecording
    \/ RecorderEnds
    \/ CancelCapture
    \/ StopEventFires
    \/ VideoAnalysed
    \/ FileChosen
    \/ Typing
    \/ handleSubmit
    \/ GenerationDone
    \/ StartNew
    \/ onDone
    \/ ViewSaved
    \/ SelectSaved
    \/ SaveActive
    \/ DeleteSaved

Spec == Init /\ [][Next]_vars

\* every generation call eventually resolves or rejects
SpecLive == Spec /\ WF_vars(GenerationDone)

---------------------------------------------------------------------------
(* The store's interface alone: list, save and deleteById called in any    *)
(* order, with writes that may fail and a blob that another writer of the  *)
(* same origin may have left unreadable.                                   *)

\* what generate can hand to save
InventoryDatas ==
    {generateInventoryFromDescription(Resolves(ObjectA)).data,
     generateInventoryFromDescription(Resolves(ObjectB)).data}

list == getSavedInventories(storage).list

StoreList ==
    /\ storage' = getSavedInventories(storage).storage
    /\ ret' = [op |-> "list", inventories |-> list, removed |-> storage' # storage]
    /\ UNCHANGED <<appVars, asyncVars, capVars, browserVars, clock>>

StoreSave(inventoryData, idMs, createdMs, writeOk) ==
    /\ Len(list) < MaxStored
    /\ LET saved == saveInventory(storage, inventoryData, idMs, createdMs, writeOk)
       IN  /\ storage' = saved.storage
           /\ ret' = [op |-> "save", threw |-> saved.threw, value |-> saved.ret]
    /\ clock' = createdMs
    /\ UNCHANGED <<appVars, asyncVars, capVars, browserVars>>

\* the ids of the records held, and one id that no record has
StoreIds == {list[k].id : k \in 1 .. Len(list)} \cup {MakeId(MaxClock + 1)}

StoreDelete(id, writeOk) ==
    /\ storage' = deleteInventoryById(storage, id, writeOk)
    /\ ret' = [op |-> "delete", id |-> id, logged |-> ~writeOk]
    /\ UNCHANGED <<appVars, asyncVars, capVars, browserVars, clock>>

UnreadableBlobs == {CorruptBlob, EmptyText}

StoreCorrupted ==
    /\ \E blob \in UnreadableBlobs :
          /\ storage # blob
          /\ storage' = blob
    /\ ret' = [op |-> "corrupted"]
    /\ UNCHANGED <<appVars, asyncVars, capVars, browserVars, clock>>

CallSave ==
    \E inventoryData \in InventoryDatas, idMs \in IdReadings, writeOk \in BOOLEAN :
        \E createdMs \in CreatedReadings(idMs) :
            StoreSave(inventoryData, idMs, createdMs, writeOk)
CallDelete == \E id \in StoreIds, writeOk \in BOOLEAN : StoreDelete(id, writeOk)

NextStore ==
    \/ StoreList
    \/ CallSave
    \/ CallDelete
    \/ StoreCorrupted

SpecStore == Init /\ [][NextStore]_vars

---------------------------------------------------------------------------
(* The Gemini client alone: ensureUnits and generateInventoryFromDescription *)
(* applied to the size strings and to the answers of the service below.    *)

\* the pieces size strings are made of: digits, a point, white space, a letter
\* and the unit tokens of the regular expression
SizeChunks ==
    {<<"1">>, <<".">>, <<" ">>, <<"a">>, <<"c", "u">>, <<"f", "t">>, <<"sup3">>,
     <<"f", "e", "e", "t">>, <<"C", "u", "b", "i", "c">>}

RECURSIVE ChunkStrings(_)
ChunkStrings(n) ==
    IF n = 0 THEN {<<>>}
    ELSE LET shorter == ChunkStrings(n - 1)
         IN  shorter \cup {s \o c : s \in shorter, c \in SizeChunks}

SizeStrings == ChunkStrings(MaxChunks)
SizeNumbers == {0, 5, 60}

\* the sizes an answer of the service carries; SizeVariable is a size with neither
\* a digit nor a unit
SizeTwelve == Str(<<"1", "2">>)
SizeVariable == Str(<<"a">>)
SizeWithUnit == Str(<<"6", "0", " ", "c", "u", " ", "f", "t">>)
SampleSizes == {SizeTwelve, SizeVariable, SizeWithUnit}

ItemOfSize(size) == [ItemBed EXCEPT !.estimatedSize = size]
FullObjects ==
    {[inventory |-> Arr(items), transcript |-> Str(text), totalEstimatedSize |-> total] :
        items \in {<<>>} \cup {<<ItemOfSize(size)>> : size \in SampleSizes},
        text \in {<<>>, <<"h", "i">>},
        total \in SampleSizes}
RequiredFields == {"inventory", "transcript", "totalEstimatedSize"}
\* the parsed answers: every object above, with any of its fields left out
GenObjects ==
    {[f \in present |-> object[f]] :
        present \in SUBSET RequiredFields, object \in FullObjects}
GenResponses ==
    {ServiceRejects, ServiceGarbage, Resolves(JSNull)}
        \cup {Resolves(object) : object \in GenObjects}

\* each run makes one call, on one input
CallEnsureUnits(size) ==
    /\ ret = Null
    /\ ret' = [op |-> "ensureUnits", size |-> size, result |-> ensureUnits(size)]
    /\ UNCHANGED <<appVars, asyncVars, capVars, browserVars, storeVars>>

\* ensureUnits applied to its own result
CallEnsureUnitsAgain ==
    /\ ret # Null
    /\ ret.op = "ensureUnits"
    /\ ret' = [op |-> "ensureUnitsAgain", size |-> ret.size, first |-> ret.result,
               result |-> ensureUnits(ret.result)]
    /\ UNCHANGED <<appVars, asyncVars, capVars, browserVars, storeVars>>

CallGenerate(response) ==
    /\ ret = Null
    /\ ret' = [op |-> "generate", response |-> response,
               result |-> generateInventoryFromDescription(response)]
    /\ UNCHANGED <<appVars, asyncVars, capVars, browserVars, storeVars>>

EnsureUnitsOfString == \E s \in SizeStrings : CallEnsureUnits(Str(s))
EnsureUnitsOfNumber == \E n \in SizeNumbers : CallEnsureUnits(Num(n))
Generate == \E response \in GenResponses : CallGenerate(response)

NextGen ==
    \/ EnsureUnitsOfString
    \/ EnsureUnitsOfNumber
    \/ CallEnsureUnitsAgain
    \/ Generate

SpecGen == Init /\ [][NextGen]_vars

---------------------------------------------------------------------------
(* Claims                                                                  *)

\* C1: in every reachable state, a view other than Success has no active inventory.
C1_ActiveOnlyInSuccess == view # "SUCCESS" => activeInventory = Null

Cleared ==
    /\ activeInventory' = Null
    /\ error' = NullStr
    /\ description' = <<>>
    /\ fileName' = NullStr

\* C2, as claimed: every step that brings the view to Idle leaves activeInventory
\* null, error null, description empty and fileName null.
C2_EveryIdleTransitionClears ==
    [][(view # "IDLE" /\ view' = "IDLE") => Cleared]_vars

\* C2, amended: start new, try again and done on an unsaved result bring the view
\* to Idle with the four fields cleared; cancelling the capture brings it to Idle
\* and leaves the four fields as they were; a completed capture brings it to Idle
\* with error null and description empty, fileName the name of the captured file
\* and activeInventory as it was.
C2_ResetClears ==
    [][/\ (StartNew \/ (onDone /\ "id" \notin DOMAIN activeInventory))
            => (view' = "IDLE" /\ Cleared)
       /\ CancelCapture
            => /\ view' = "IDLE"
               /\ UNCHANGED <<activeInventory, error, description, fileName>>
       /\ OnStop(TRUE)
            => /\ view' = "IDLE"
               /\ error' = NullStr
               /\ description' = <<>>
               /\ fileName' = CaptureName
               /\ UNCHANGED activeInventory]_vars

\* a reset has cleared the file name and the processing flag of an analysis that is
\* still pending
C2_Witness ==
    /\ view = "IDLE"
    /\ videoPending > 0
    /\ ~isProcessingVideo
    /\ fileName = NullStr
    /\ description = <<>>
    /\ error = NullStr
    /\ activeInventory = Null

\* C3: a submit with an empty or whitespace-only description leaves the view at
\* Idle, sets a non-empty message in error, starts no generation request and leaves
\* activeInventory and description as they were.
C3_BlankSubmitRejected ==
    [][(handleSubmit /\ Trim(description) = <<>>)
          => /\ view = "IDLE" /\ view' = "IDLE"
             /\ error' \notin {NullStr, ""}
             /\ genPending' = genPending
             /\ UNCHANGED <<activeInventory, description>>]_vars

\* a whitespace-only description has been rejected
C3_Witness ==
    /\ view = "IDLE"
    /\ description = <<" ">>
    /\ error = ValidationMessage
    /\ genPending = 0

\* C4: a submit with a non-blank description moves Idle to Processing with no active
\* inventory and no error; a generation call that resolves with r moves to Success
\* with activeInventory = r; and Processing is left for no view but Success (or
\* Error, when the call rejects).
C4_SubmitThenSuccess ==
    [][/\ (handleSubmit /\ Trim(description) # <<>>)
            => /\ view = "IDLE" /\ view' = "PROCESSING"
               /\ activeInventory' = Null
               /\ error' = NullStr
       /\ \A response \in ServiceResponses :
            (GenerationSettles(response)
               /\ generateInventoryFromDescription(response).ok)
            => /\ view' = "SUCCESS"
               /\ activeInventory' = generateInventoryFromDescription(response).data
       /\ (view = "PROCESSING" /\ view' # "PROCESSING")
            => view' \in {"SUCCESS", "ERROR"}]_vars

\* C5: in every reachable state whose view is Error, error holds a non-empty message
\* and there is no active inventory.
C5_ErrorViewState ==
    view = "ERROR" => (error \notin {NullStr, ""} /\ activeInventory = Null)

\* C6: if every generation call eventually settles, every state whose view is
\* Processing is followed by a state whose view is Success or Error.
C6_NeverStuckInProcessing ==
    (view = "PROCESSING") ~> (view \in {"SUCCESS", "ERROR"})

\* a generation call has rejected and the view has left Processing for Error
C6_Witness ==
    /\ view = "ERROR"
    /\ error = GenerationFailureMessage
    /\ genPending = 0

\* C7: at most one generation request or video analysis is pending.
C7_OneOperationInFlight == genPending + videoPending <= 1

\* C8: outside the capture view no acquired stream has unstopped tracks.
C8_StreamReleased ==
    view # "CAPTURING_VIDEO" => (streamRef = Null /\ ~leakedStream)

\* C9: after a save of x that succeeds, list() holds exactly one record equal to
\* the record save returned, which is x with an id and a createdAt, and that record
\* comes before every record saved earlier.
C9_SavedOnceAndFirst ==
    [][\A x \in InventoryDatas, idMs \in IdReadings :
         \A createdMs \in CreatedReadings(idMs) :
            StoreSave(x, idMs, createdMs, TRUE)
            => LET after == getSavedInventories(storage').list
                   saved == ret'.value
               IN  /\ saved = NewInventory(x, idMs, createdMs)
                   /\ Cardinality({k \in 1 .. Len(after) : after[k] = saved}) = 1
                   /\ after[1] = saved]_vars

\* C10: no two records of the store have the same id.
C10_UniqueIds ==
    \A i, j \in 1 .. Len(list) : i # j => list[i].id # list[j].id

\* C11: on every reachable store, a save of x that returns a record with id i,
\* followed by deleteById(i), gives a store whose list() is the list() before the save.
C11_SaveDeleteRoundTrip ==
    \A x \in InventoryDatas, idMs \in IdReadings :
        \A createdMs \in CreatedReadings(idMs) :
            LET saved == saveInventory(storage, x, idMs, createdMs, TRUE)
                after == deleteInventoryById(saved.storage, saved.ret.id, TRUE)
            IN  getSavedInventories(after).list = list

\* the records of a list other than those of one id, in their order
WithoutId(records, id) ==
    LET Keep(inv) == inv.id # id
    IN  SelectSeq(records, Keep)

C13_FailedSaveThrows ==
    [][\A x \in InventoryDatas, idMs \in IdReadings :
          \A createdMs \in CreatedReadings(idMs) :
              StoreSave(x, idMs, createdMs, FALSE)
              => /\ ret'.threw
                 /\ ret'.value = Null
                 /\ list' = list]_vars

\* a save has thrown on a store that holds a record
C13_Witness ==
    /\ ret # Null
    /\ ret.op = "save"
    /\ ret.threw
    /\ list # <<>>

\* C14: a save in Success whose write fails sets a non-empty error, does not move
\* the view to the saved list and adds no record to savedInventories.
C14_FailedSaveSetsError ==
    [][\A idMs \in IdReadings :
          \A createdMs \in CreatedReadings(idMs) :
              handleSaveInventory(idMs, createdMs, FALSE)
              => /\ error' \notin {NullStr, ""}
                 /\ view' # "LIST_INVENTORIES"
                 /\ savedInventories' = savedInventories]_vars

\* list() after the blob, and list() after any save that follows it, as C15 has them
HealedAfterList ==
    /\ ret'.inventories = <<>>
    /\ list' = <<>>
    /\ \A x \in InventoryDatas, idMs \in IdReadings :
          \A createdMs \in CreatedReadings(idMs) :
              getSavedInventories(
                  saveInventory(storage', x, idMs, createdMs, TRUE).storage).list
                = <<NewInventory(x, idMs, createdMs)>>

C16_FailedDeleteNotEscalated ==
    [][\A id \in DeletableIds :
          handleDeleteInventory(id, FALSE)
          => /\ getSavedInventories(storage').list = getSavedInventories(storage).list
             /\ \E k \in 1 .. Len(getSavedInventories(storage').list) :
                    getSavedInventories(storage').list[k].id = id
             /\ savedInventories' = getSavedInventories(storage).list
             /\ view' # "ERROR"
             /\ error' = error
             /\ ret'.logged]_vars

\* the delete of the saved inventory on display has failed to write: the view is the
\* saved list and the record is still listed
C16_Witness ==
    /\ ret # Null
    /\ ret.op = "delete"
    /\ ret.logged
    /\ view = "LIST_INVENTORIES"
    /\ activeInventory = Null
    /\ \E k \in 1 .. Len(savedInventories) : savedInventories[k].id = ret.id

\* C17, as claimed: for a size string s, ensureUnits gives s when s has a unit token,
\* s followed by " cubic feet" when s has none and is purely numeric, and s in every
\* other case.
C17_ThreeCaseRule ==
    (ret # Null /\ ret.op = "ensureUnits" /\ ret.size.t = "str")
    => LET s == ret.size.v
       IN  ret.result = IF HasUnit(s) THEN Str(s)
                        ELSE IF FullNumeric(s) THEN Str(s \o CubicFeetSuffix)
                        ELSE Str(s)

\* C17, amended: with t the string s without its leading and trailing white space,
\* ensureUnits gives t when s has a unit token, t followed by " cubic feet" when s
\* has none and has a digit anywhere, and t in every other case.
C17_TrimmedAnyDigitRule ==
    (ret # Null /\ ret.op = "ensureUnits" /\ ret.size.t = "str")
    => LET s == ret.size.v
           t == Trim(s)
       IN  ret.result = IF HasUnit(s) THEN Str(t)
                        ELSE IF HasDigit(s) THEN Str(t \o CubicFeetSuffix)
                        ELSE Str(t)

\* ensureUnits has appended the suffix to a string that mixes a letter and a digit
C17_Witness ==
    /\ ret # Null
    /\ ret.op = "ensureUnits"
    /\ ret.size = Str(<<"a", "1">>)
    /\ ret.result = Str(<<"a", "1">> \o CubicFeetSuffix)

\* the sizes of a generated inventory
SizesOf(data) ==
    {data.totalEstimatedSize}
        \cup {data.inventory.v[k].estimatedSize : k \in 1 .. Len(data.inventory.v)}

\* C18: every estimatedSize and the totalEstimatedSize of an inventory that generate
\* returns has a unit token.
C18_GeneratedSizesHaveUnits ==
    (ret # Null /\ ret.op = "generate" /\ ret.result.ok)
    => \A size \in SizesOf(ret.result.data) : size.t = "str" /\ HasUnit(size.v)

\* C19, as claimed: ensureUnits applied to its own result gives that result again,
\* and ensureUnits of a string that has a unit token gives that string.
C19_IdempotentUnitUnchanged ==
    /\ (ret # Null /\ ret.op = "ensureUnitsAgain") => ret.result = ret.first
    /\ (ret # Null /\ ret.op = "ensureUnits" /\ ret.size.t = "str"
          /\ HasUnit(ret.size.v))
       => ret.result = ret.size

\* C19, amended: ensureUnits applied to its own result gives that result again, and
\* ensureUnits of a string that has a unit token gives that string without its
\* leading and trailing white space; "12" gives "12 cubic feet".
C19_IdempotentUnitTrimmed ==
    /\ (ret # Null /\ ret.op = "ensureUnitsAgain") => ret.result = ret.first
    /\ (ret # Null /\ ret.op = "ensureUnits" /\ ret.size.t = "str"
          /\ HasUnit(ret.size.v))
       => ret.result = Str(Trim(ret.size.v))
    /\ (ret # Null /\ ret.op = "ensureUnits" /\ ret.size = Str(<<"1", "1">>))
       => ret.result = Str(<<"1", "1">> \o CubicFeetSuffix)

\* ensureUnits has been applied to the result it gave for a number without unit
C19_Witness ==
    /\ ret # Null
    /\ ret.op = "ensureUnitsAgain"
    /\ ret.size = Str(<<"1", "1">>)
    /\ ret.first = Str(<<"1", "1">> \o CubicFeetSuffix)
    /\ ret.result = ret.first

\* C20: generate fails with the one failure message and returns no data when the
\* service call rejects, when the text is not parsed, or when inventory, transcript
\* or totalEstimatedSize is absent from the parsed answer.
C20_OneGenerationFailure ==
    (/\ ret # Null
     /\ ret.op = "generate"
     /\ \/ ret.response.call = "rejects"
        \/ ret.response.parse = "throws"
        \/ \E f \in RequiredFields : f \notin DOMAIN ret.response.value)
    => /\ ret.result = GenerationFailure
       /\ "data" \notin DOMAIN ret.result
       /\ ret.result.message = GenerationFailureMessage

\* generate has failed on an answer that lacks the transcript only
C20_Witness ==
    /\ ret # Null
    /\ ret.op = "generate"
    /\ ret.response.call = "resolves"
    /\ ret.response.parse = "ok"
    /\ DOMAIN ret.response.value = {"inventory", "totalEstimatedSize"}
    /\ ret.result = GenerationFailure

\* the active inventory is a record of the store with the id given
ActiveHasId(id) ==
    /\ activeInventory # Null
    /\ "id" \in DOMAIN activeInventory
    /\ activeInventory.id = id

\* the ids of a sequence of stored records
IdsOf(records) == {records[k].id : k \in 1 .. Len(records)}

\* C21: done in Success moves the view to the saved list when the active inventory
\* carries an id, and otherwise resets to Idle with activeInventory, error,
\* description, fileName and the processing flag cleared; it leaves the store and
\* the saved list as they were.
C21_DoneListsOrResets ==
    [][onDone
         => /\ view = "SUCCESS"
            /\ IF "id" \in DOMAIN activeInventory
               THEN view' = "LIST_INVENTORIES"
               ELSE /\ view' = "IDLE"
                    /\ Cleared
                    /\ ~isProcessingVideo'
            /\ UNCHANGED <<storage, savedInventories>>]_vars

\* done has been pressed on a record of the store: the view is the saved list and
\* the record is still the active inventory
C21_Witness ==
    /\ view = "LIST_INVENTORIES"
    /\ activeInventory # Null
    /\ "id" \in DOMAIN activeInventory
    /\ ret = Null

\* C22, as claimed: a delete of the active inventory's id gives the saved list as
\* view, no active inventory and a saved list without a record of that id; a delete
\* of another id leaves view and activeInventory as they were.
C22_DeleteActiveRemoves ==
    [][\A id \in DeletableIds, writeOk \in BOOLEAN :
          handleDeleteInventory(id, writeOk)
          => IF ActiveHasId(id)
             THEN /\ view' = "LIST_INVENTORIES"
                  /\ activeInventory' = Null
                  /\ id \notin IdsOf(savedInventories')
             ELSE UNCHANGED <<view, activeInventory>>]_vars

\* C22, amended: the same, except that the saved list is without a record of that
\* id when the delete's write succeeds, and is as it was when the write fails.
C22_DeleteActiveClears ==
    [][\A id \in DeletableIds, writeOk \in BOOLEAN :
          handleDeleteInventory(id, writeOk)
          => IF ActiveHasId(id)
             THEN /\ view' = "LIST_INVENTORIES"
                  /\ activeInventory' = Null
                  /\ writeOk => id \notin IdsOf(savedInventories')
                  /\ ~writeOk => savedInventories' = savedInventories
             ELSE UNCHANGED <<view, activeInventory>>]_vars

\* a delete whose write failed has been handled in the saved list: its failure is
\* logged, there is no active inventory and the record is still in the saved list
C22_Witness ==
    /\ ret # Null
    /\ ret.op = "delete"
    /\ ret.logged
    /\ view = "LIST_INVENTORIES"
    /\ activeInventory = Null
    /\ ret.id \in IdsOf(savedInventories)

\* C23, as claimed: right after the capture view is left on completion, description
\* holds the adapter's output and no video analysis is pending.
C23_IdleAfterAnalysis ==
    [][(view = "CAPTURING_VIDEO" /\ OnStop(TRUE))
          => /\ view' = "IDLE"
             /\ description' \in simulatedDescriptions
             /\ videoPending' = 0]_vars

\* C23, amended: the capture view is left for Idle as soon as the recording is
\* complete, before the video-to-description call has completed: right after it
\* description is empty, the processing flag is set, fileName is the captured
\* file's name and one more video analysis is pending; the completion of an
\* analysis puts the adapter's output into description and clears the flag.
C23_IdleBeforeAnalysis ==
    [][/\ (view = "CAPTURING_VIDEO" /\ OnStop(TRUE))
            => /\ view' = "IDLE"
               /\ description' = <<>>
               /\ isProcessingVideo'
               /\ fileName' = CaptureName
               /\ videoPending' = videoPending + 1
       /\ \A d \in simulatedDescriptions :
            VideoResolves(d)
            => /\ description' = d
               /\ ~isProcessingVideo'
               /\ videoPending' = videoPending - 1
               /\ UNCHANGED view]_vars

\* a capture has completed and the analysis of its file is pending in Idle
C23_Witness ==
    /\ view = "IDLE"
    /\ fileName = CaptureName
    /\ isProcessingVideo
    /\ videoPending > 0
    /\ description = <<>>
    /\ streamRef = Null

\* the edges of the view machine
ViewEdges ==
    {<<"IDLE", "CAPTURING_VIDEO">>, <<"IDLE", "PROCESSING">>,
     <<"IDLE", "LIST_INVENTORIES">>, <<"CAPTURING_VIDEO", "IDLE">>,
     <<"PROCESSING", "SUCCESS">>, <<"PROCESSING", "ERROR">>,
     <<"SUCCESS", "LIST_INVENTORIES">>, <<"SUCCESS", "IDLE">>,
     <<"LIST_INVENTORIES", "SUCCESS">>, <<"LIST_INVENTORIES", "IDLE">>,
     <<"ERROR", "IDLE">>}

\* C24: every change of view follows one of the edges of the view machine.
C24_OnlyListedEdges ==
    [][view' # view => <<view, view'>> \in ViewEdges]_vars

\* C25: once a reset has cleared description, fileName and the processing flag in
\* Idle, the completion of a video analysis begun before it writes into none of
\* them.
C25_LateAnalysisIgnored ==
    [][\A d \in simulatedDescriptions :
          (/\ VideoResolves(d)
           /\ view = "IDLE"
           /\ description = <<>>
           /\ fileName = NullStr
           /\ ~isProcessingVideo)
          => UNCHANGED <<description, fileName, isProcessingVideo>>]_vars

\* C26: the in-memory saved list is the store's list(), record for record and in
\* the same order, in every reachable state.
C26_SavedListIsStoreList ==
    savedInventories = getSavedInventories(storage).list

\* a save whose write failed has followed a save that was stored: the saved list
\* holds the one stored record
C26_Witness ==
    /\ ret # Null
    /\ ret.op = "save"
    /\ ret.threw
    /\ Len(savedInventories) = 1
    /\ view = "SUCCESS"

\* C27: in every reachable state whose view is Success there is an active
\* inventory.
C27_SuccessHasInventory ==
    view = "SUCCESS" => activeInventory # Null

\* Success shows a generated inventory that was never saved while a record is in
\* the saved list
C27_Witness ==
    /\ view = "SUCCESS"
    /\ activeInventory # Null
    /\ "id" \notin DOMAIN activeInventory
    /\ savedInventories # <<>>

\* C28: an active inventory that carries an id is a record of the in-memory saved
\* list.
C28_ActiveRecordIsSaved ==
    (activeInventory # Null /\ "id" \in DOMAIN activeInventory)
    => activeInventory.id \in IdsOf(savedInventories)

\* a record has been deleted while another record, still in the saved list, is the
\* active inventory
C28_Witness ==
    /\ ret # Null
    /\ ret.op = "delete"
    /\ ~ret.logged
    /\ activeInventory # Null
    /\ "id" \in DOMAIN activeInventory
    /\ activeInventory.id # ret.id
    /\ ret.id \notin IdsOf(savedInventories)

\* C29: in every reachable state whose view is the capture view, Cancel is enabled,
\* or Stop acts on a running recorder, or the completion of a recording is still
\* to be delivered.
C29_CaptureNeverDeadEnd ==
    view = "CAPTURING_VIDEO"
    => \/ capError # NullStr
       \/ ~isRecording
       \/ recorder = "recording"
       \/ stopEvents > 0

\* C30: generate succeeds with the normalized data whenever the service's answer is
\* parsed to an object that has inventory, transcript and totalEstimatedSize.
C30_PresentFieldsSucceed ==
    (/\ ret # Null
     /\ ret.op = "generate"
     /\ ret.response.call = "resolves"
     /\ ret.response.parse = "ok"
     /\ "t" \notin DOMAIN ret.response.value
     /\ RequiredFields \subseteq DOMAIN ret.response.value)
    => /\ ret.result.ok
       /\ ret.result.data = PostProcess(ret.response.value)

===========================================================================
